---- MODULE Spec2Model ----
(***************************************************************************)
(* Model of src/ipcalc.py (pn_ztp_l3_links): the IPv4 subnet sequencer     *)
(* (BetterIPv4Network, finding_initial_ip) and the link allocation planner *)
(* (auto_configure_link_ips) together with the exit of main().             *)
(*                                                                         *)
(* Addresses are integers of AddrBits bits (the program uses 32; the width *)
(* is scaled so that the whole address space, its top included, is         *)
(* explored).  Switch names are pairs <<role, number>>.  The remote        *)
(* collaborators of pn_netvisor are not part of the file: each call is     *)
(* recorded in the command log cmds, and what it returns is an input of    *)
(* the step that calls it.                                                 *)
(***************************************************************************)
EXTENDS Integers, Sequences, FiniteSets, TLC

(* ---------------------------- bounds ----------------------------------- *)
AddrBits  == 6      \* width of an IPv4 address in the model
NumLeaves == 2      \* length of pn_leaf_list
NumSpines == 2      \* length of pn_spine_list
MaxSlots  == 2      \* most slots in the IPv6 window
MaxIndex  == 4      \* largest index the sequencer is asked for on its own

(* ------------------------- encodings ----------------------------------- *)
\* The empty string '' of ip_ipv4 / ip_ipv6 (lines 244-245); addresses are >= 0.
NoAddr == -1
\* The word 'Success' in the output of a port query (line 240); ports are >= 1.
SuccessTok == 0
\* The free name count_output (line 228) when no binding of it exists.
Unbound == -1

VARIABLES
  params,             \* module.params (lines 201-209), fixed for all runs
  count_output,       \* binding of the free name count_output, or Unbound
  ipv6_window,        \* number of slots calculate_link_ip_addresses_ipv6 yields
  current_switch,     \* pn_current_switch of the running invocation
  pc,                 \* position of the running invocation
  si,                 \* index into spine_list of the loop at pc
  count,              \* the local count (line 231, 292)
  ips,                \* the local ips (line 233)
  leaf_port,          \* the local leaf_port after list(set(...)) (line 238)
  lport,              \* the local lport (line 266)
  rport,              \* the local rport (line 273)
  available_ips_ipv6, \* slots already drawn from the IPv6 iterator
  ip_list,            \* the local ip_list (line 248)
  CHANGED_FLAG,       \* the elements of the list CHANGED_FLAG (line 334)
  output,             \* the switches whose result text was appended to output
  cmds,               \* remote commands issued by the running invocation
  result,             \* how the invocation ended
  discovered,         \* per spine queried: the distinct ports the query reported
  drawn,              \* the networks finding_initial_ip produced, with their index
  previous            \* what the invocation before this one did

vars == <<params, count_output, ipv6_window, current_switch, pc, si, count, ips,
          leaf_port, lport, rport, available_ips_ipv6, ip_list, CHANGED_FLAG,
          output, cmds, result, discovered, drawn, previous>>

(* --------------------------- inputs ------------------------------------ *)
leaf_list  == [i \in 1..NumLeaves |-> <<"leaf", i>>]
spine_list == [i \in 1..NumSpines |-> <<"spine", i>>]

Range(s) == {s[i] : i \in 1..Len(s)}

\* list.index(x): the first position of x, counted from 0.
IndexOf(s, x) == (CHOOSE i \in 1..Len(s) : s[i] = x /\ \A j \in 1..(i-1) : s[j] # x) - 1

Switches == Range(leaf_list) \cup {spine_list[1]}

MaxAddr == 2^AddrBits - 1

\* Start addresses and prefix lengths the runs are given.
StartIps == {0, 1, 2^AddrBits - 4}
Prefixes == {AddrBits - 2, AddrBits - 1, AddrBits}

\* The p-th leaf port cabled to the spine at position s, and the spine port at
\* the far end of a leaf port.
Port(s, p) == 2 * (s - 1) + p
RPortOf(leaf, lp) == 2 * (leaf[2] - 1) + ((lp - 1) % 2) + 1

\* What "port-show hostname <spine> format port" can print (lines 235-237):
\* nothing, the word Success, one port, one port twice, or two ports.
PortOutputs(s) ==
  {<< >>, <<SuccessTok>>, <<Port(s, 1)>>, <<Port(s, 1), Port(s, 1)>>,
   <<Port(s, 1), Port(s, 2)>>}


(* ------------------ ipaddress / BetterIPv4Network ---------------------- *)
Ok(v)   == [ok |-> TRUE, val |-> v, exc |-> "none"]
Raise(e) == [ok |-> FALSE, val |-> << >>, exc |-> e]

\* Number of addresses of a network of the given prefix length.
NetSize(prefix) == 2^(AddrBits - prefix)

\* ipaddress.ip_network(addr/prefix), strict: host bits set is a ValueError.
ip_network(addr, prefix) ==
  IF addr < 0 \/ addr > MaxAddr THEN Raise("AddressValueError")
  ELSE IF addr % NetSize(prefix) # 0 THEN Raise("ValueError")
  ELSE Ok([network_address |-> addr, prefixlen |-> prefix])

broadcast_address(net) == net.network_address + NetSize(net.prefixlen) - 1

\* BetterIPv4Network.size
size(net) == broadcast_address(net) + 1 - net.network_address

\* __add__ that drops the network's own address.
AddWithoutBase(net, offset) == ip_network(offset, net.prefixlen)

\* BetterIPv4Network.__add__
BetterAdd(net, offset) == ip_network(net.network_address + offset, net.prefixlen)

\* A host list that counts network and broadcast address in for every prefix.
AllAddresses(net) == [i \in 1..size(net) |-> net.network_address + (i - 1)]

\* list(net.hosts()): every address for a prefix of AddrBits-1, else the
\* addresses strictly between network and broadcast address.
hosts(net) ==
  IF net.prefixlen = AddrBits - 1
  THEN <<net.network_address, net.network_address + 1>>
  ELSE [i \in 1..(IF size(net) >= 2 THEN size(net) - 2 ELSE 0)
          |-> net.network_address + i]

\* A generator that starts at the base network itself.
StrideFromBase(network, i) == i * size(network)

\* The offset of the (i+1)-th element of network_addrs (line 187).
Stride(network, i) == (i + 1) * size(network)

\* The loop of lines 188-190: the draws from network_addrs that are still to
\* come, i being the generator's counter; the value is the last my_range.
RECURSIVE DrawNetworks(_, _, _, _)
DrawNetworks(network, i, remaining, last) ==
  IF remaining = 0 THEN last
  ELSE LET my_range == BetterAdd(network, Stride(network, i))
       IN IF ~my_range.ok THEN my_range
          ELSE DrawNetworks(network, i + 1, remaining - 1, my_range)

\* The network whose hosts finding_initial_ip returns (lines 182-190).
nth_network(start_ip, subnet_ipv4, cnt) ==
  LET network == ip_network(start_ip, subnet_ipv4)
  IN IF ~network.ok \/ cnt = 0 THEN network
     ELSE DrawNetworks(network.val, 0, cnt, network)

finding_initial_ip(start_ip, subnet_ipv4, cnt) ==
  LET net == nth_network(start_ip, subnet_ipv4, cnt)
  IN IF ~net.ok THEN net ELSE Ok(hosts(net.val))

(* ---------------------- IPv6 allocation window ------------------------- *)
\* get_count of line 224.
GetCount(subnet_ipv6) == IF subnet_ipv6 = "127" THEN 2 ELSE 3

\* The j-th slot (from 0) of the iterator of calculate_link_ip_addresses_ipv6:
\* the first get_count addresses of the j-th subnet.
V6Slot(j, subnet_ipv6) ==
  [p \in 1..GetCount(subnet_ipv6) |->
     j * (IF subnet_ipv6 = "127" THEN 2 ELSE 4) + (p - 1)]

WantsV4 == params.pn_addr_type \in {"ipv4", "ipv4_ipv6"}
WantsV6 == params.pn_addr_type \in {"ipv6", "ipv4_ipv6"}

(* --------------------------- commands ---------------------------------- *)
Cmd(op, sw, port, peer, ip4, ip6) ==
  [op |-> op, sw |-> sw, port |-> port, peer |-> peer, ip4 |-> ip4, ip6 |-> ip6]

NoSwitch == <<"none", 0>>

\* Auto-trunk handled on the current switch alone.
OnlyCurrentSwitch == <<current_switch>>

\* The switches whose auto-trunk setting is modified, in order (lines 217-220
\* and 295-298).
AutoTrunkTargets == <<current_switch>> \o spine_list

AutoTrunkCmds(op) ==
  [i \in 1..Len(AutoTrunkTargets) |->
     Cmd(op, AutoTrunkTargets[i], 0, NoSwitch, NoAddr, NoAddr)]

\* The leaf's index taken as the offset, the spine count forgotten.
IndexAsCount == IndexOf(leaf_list, current_switch)

\* count at line 231.
InitialCount == IndexOf(leaf_list, current_switch) * Len(spine_list)

\* A gate that lets every switch through.
AnySwitch == TRUE

\* The test of line 215.
InLeafList == current_switch \in Range(leaf_list)

\* The IPv4 addresses the create_interface calls of a command log applied.
AppliedIpv4(log) ==
  {log[i].ip4 : i \in {k \in 1..Len(log) :
                         log[k].op = "create_interface" /\ log[k].ip4 # NoAddr}}

\* list(set(text.split())) of lines 237-238, as a set.
Distinct(out) == Range(out)

\* Every spine of the list was queried and each query reported exactly one port.
OnePortEach(found) ==
  Len(found) = Len(spine_list) /\ \A s \in 1..Len(found) : Cardinality(found[s]) = 1

NoPrevious == [switch |-> NoSwitch, applied |-> {}, one_port_each |-> FALSE]

NoResult == [kind |-> "none", failed |-> FALSE, changed |-> FALSE, exception |-> ""]

(* ----------------------------- Init ------------------------------------ *)
Param(t, a, p, s6) ==
  [pn_addr_type |-> t, pn_ipv4_start_address |-> a, pn_subnet_ipv4 |-> p,
   pn_subnet_ipv6 |-> s6]

\* The parameter sets explored.  With pn_addr_type 'ipv4' the IPv6 inputs are
\* never read and are left at one value; with 'ipv6' the IPv4 prefix is never read.
\* No invocation has started.
Idle ==
  /\ current_switch = NoSwitch
  /\ si = 1
  /\ count = 0
  /\ ips = << >>
  /\ leaf_port = {}
  /\ lport = 0
  /\ rport = 0
  /\ available_ips_ipv6 = 0
  /\ ip_list = << >>
  /\ CHANGED_FLAG = {}
  /\ output = << >>
  /\ cmds = << >>
  /\ result = NoResult
  /\ discovered = << >>
  /\ drawn = {}
  /\ previous = NoPrevious

\* count_output is a free name of the file: nothing in it binds the name, and
\* whether the star import of line 22 does is not decided by the file.
CountOutputs == {Unbound, 0, 1}

Init ==
  /\ \/ /\ params \in {Param("ipv4", a, p, "none") : a \in StartIps, p \in Prefixes}
        /\ count_output = Unbound
        /\ ipv6_window = 0
     \/ /\ params \in {Param("ipv4_ipv6", 0, AddrBits - 1, s6) : s6 \in {"127", "126"}}
        /\ count_output \in CountOutputs
        /\ ipv6_window \in 0..MaxSlots
     \/ /\ params \in {Param("ipv6", 0, AddrBits - 1, s6) : s6 \in {"127", "126"}}
        /\ count_output \in {Unbound, 0}
        /\ ipv6_window \in 0..MaxSlots
  /\ pc = "idle"
  /\ Idle

(* ---------------------------- actions ---------------------------------- *)
\* An exception nothing catches: the invocation ends there.
Crash(e) ==
  /\ pc' = "done"
  /\ result' = [kind |-> "exception", failed |-> TRUE, changed |-> FALSE,
                exception |-> e]

\* main(), lines 334-340: a fresh invocation on switch sw.
Invoke(sw) ==
  /\ pc = "idle"
  /\ sw \in Switches
  /\ current_switch' = sw
  /\ pc' = "gate"
  /\ UNCHANGED <<params, count_output, ipv6_window, si, count, ips, leaf_port,
                 lport, rport, available_ips_ipv6, ip_list, CHANGED_FLAG, output,
                 cmds, result, discovered, drawn, previous>>

\* The process of an ended invocation is gone: its locals with it.  What it
\* applied stays on the switches.
Exit ==
  /\ pc = "done"
  /\ previous' = [switch |-> current_switch, applied |-> AppliedIpv4(cmds),
                  one_port_each |-> OnePortEach(discovered)]
  /\ pc' = "idle"
  /\ current_switch' = NoSwitch
  /\ si' = 1
  /\ count' = 0
  /\ ips' = << >>
  /\ leaf_port' = {}
  /\ lport' = 0
  /\ rport' = 0
  /\ available_ips_ipv6' = 0
  /\ ip_list' = << >>
  /\ CHANGED_FLAG' = {}
  /\ output' = << >>
  /\ cmds' = << >>
  /\ result' = NoResult
  /\ discovered' = << >>
  /\ drawn' = {}
  /\ UNCHANGED <<params, count_output, ipv6_window>>

\* Line 215.
Gate ==
  /\ pc = "gate"
  /\ pc' = IF InLeafList THEN "disable" ELSE "return"
  /\ UNCHANGED <<params, count_output, ipv6_window, current_switch, si, count,
                 ips, leaf_port, lport, rport, available_ips_ipv6, ip_list,
                 CHANGED_FLAG, output, cmds, result, discovered, drawn, previous>>

\* Lines 217-220: modify_auto_trunk_setting(..., 'disable') on the current
\* switch, then on every spine in list order.
DisableAutoTrunk ==
  /\ pc = "disable"
  /\ cmds' = cmds \o AutoTrunkCmds("auto_trunk_disable")
  /\ pc' = "ipv6_setup"
  /\ UNCHANGED <<params, count_output, ipv6_window, current_switch, si, count,
                 ips, leaf_port, lport, rport, available_ips_ipv6, ip_list,
                 CHANGED_FLAG, output, result, discovered, drawn, previous>>

\* Lines 223-229: build the IPv6 iterator and skip count_output slots.
Ipv6Setup ==
  /\ pc = "ipv6_setup"
  /\ IF ~WantsV6
     THEN pc' = "offset" /\ UNCHANGED <<available_ips_ipv6, result>>
     ELSE IF count_output = Unbound
     THEN Crash("NameError") /\ UNCHANGED available_ips_ipv6
     ELSE IF count_output > ipv6_window
     THEN Crash("StopIteration") /\ available_ips_ipv6' = ipv6_window
     ELSE pc' = "offset" /\ available_ips_ipv6' = count_output /\ UNCHANGED result
  /\ UNCHANGED <<params, count_output, ipv6_window, current_switch, si, count,
                 ips, leaf_port, lport, rport, ip_list, CHANGED_FLAG, output,
                 cmds, discovered, drawn, previous>>

\* Line 231.
Offset ==
  /\ pc = "offset"
  /\ count' = InitialCount
  /\ si' = 1
  /\ pc' = "spine"
  /\ UNCHANGED <<params, count_output, ipv6_window, current_switch, ips,
                 leaf_port, lport, rport, available_ips_ipv6, ip_list,
                 CHANGED_FLAG, output, cmds, result, discovered, drawn, previous>>

\* Lines 232-241: the body of the spine loop up to the port loop.
Spine ==
  /\ pc = "spine"
  /\ si <= Len(spine_list)
  /\ LET r == IF WantsV4
              THEN finding_initial_ip(params.pn_ipv4_start_address,
                                      params.pn_subnet_ipv4, count)
              ELSE Raise("UnboundLocalError")
     IN IF ~r.ok
        THEN /\ Crash(r.exc)
             /\ UNCHANGED <<si, ips, leaf_port, cmds, drawn, discovered>>
        ELSE /\ ips' = r.val
             /\ drawn' = drawn \cup
                  {[n |-> count,
                    net |-> nth_network(params.pn_ipv4_start_address,
                                        params.pn_subnet_ipv4, count).val]}
             /\ cmds' = Append(cmds, Cmd("port_show_hostname", current_switch, 0,
                                         spine_list[si], NoAddr, NoAddr))
             /\ \E out \in PortOutputs(si) :
                  /\ leaf_port' = Distinct(out)
                  /\ discovered' = Append(discovered, Distinct(out) \ {SuccessTok})
                  /\ IF SuccessTok \in Distinct(out)
                     THEN pc' = "spine" /\ si' = si + 1
                     ELSE pc' = "link" /\ si' = si
             /\ UNCHANGED result
  /\ UNCHANGED <<params, count_output, ipv6_window, current_switch, count, lport,
                 rport, available_ips_ipv6, ip_list, CHANGED_FLAG, output,
                 previous>>

\* Leaving the port loop with the offset advanced once more.
PortsDoneAdvancing ==
  /\ pc = "link"
  /\ leaf_port = {}
  /\ si' = si + 1
  /\ count' = count + 1
  /\ pc' = "spine"
  /\ UNCHANGED <<params, count_output, ipv6_window, current_switch, ips,
                 leaf_port, lport, rport, available_ips_ipv6, ip_list,
                 CHANGED_FLAG, output, cmds, result, discovered, drawn, previous>>

\* Line 243 when leaf_port is empty: on to the next spine.
PortsDone ==
  /\ pc = "link"
  /\ leaf_port = {}
  /\ si' = si + 1
  /\ pc' = "spine"
  /\ UNCHANGED <<params, count_output, ipv6_window, current_switch, count, ips,
                 leaf_port, lport, rport, available_ips_ipv6, ip_list,
                 CHANGED_FLAG, output, cmds, result, discovered, drawn, previous>>

\* Addresses of lines 264 and 276 (spine side), 284 and 287 (leaf side), from
\* the hosts hs of the spine's subnet and the IPv6 slot of the link.
SecondHostOnSpine(hs) == IF WantsV4 THEN hs[2] ELSE NoAddr
SpineIpv4(hs) == IF WantsV4 THEN hs[1] ELSE NoAddr
LeafIpv4(hs)  == IF WantsV4 THEN hs[2] ELSE NoAddr
SpineIpv6(slot) ==
  IF WantsV6 THEN (IF params.pn_subnet_ipv6 = "127" THEN slot[1] ELSE slot[2])
  ELSE NoAddr
LeafIpv6(slot) ==
  IF WantsV6 THEN (IF params.pn_subnet_ipv6 = "127" THEN slot[2] ELSE slot[3])
  ELSE NoAddr

\* The commands of lines 278-279 and 289-290 for one link.
SpineSideCmds(spine, rp, hs, slot) ==
  << Cmd("delete_trunk", spine, rp, current_switch, NoAddr, NoAddr),
     Cmd("create_interface", spine, rp, NoSwitch, SpineIpv4(hs), SpineIpv6(slot)) >>
\* The leaf side with the interface applied before the trunk is removed.
LeafCreateThenDelete(spine, lp, hs, slot) ==
  << Cmd("create_interface", current_switch, lp, NoSwitch, LeafIpv4(hs),
         LeafIpv6(slot)),
     Cmd("delete_trunk", current_switch, lp, spine, NoAddr, NoAddr) >>

LeafSideCmds(spine, lp, hs, slot) ==
  << Cmd("delete_trunk", current_switch, lp, spine, NoAddr, NoAddr),
     Cmd("create_interface", current_switch, lp, NoSwitch, LeafIpv4(hs),
         LeafIpv6(slot)) >>

\* Lines 247-263: the IPv6 iterator has no slot left; exit_json ends the run.
Exhausted ==
  /\ pc' = "done"
  /\ result' = [kind |-> "exit_json", failed |-> TRUE, changed |-> FALSE,
                exception |-> "Error: ipv6 range exhausted"]
  /\ UNCHANGED <<ip_list, available_ips_ipv6, lport, rport, leaf_port, cmds,
                 CHANGED_FLAG, output, count>>

\* A port loop that leaves the handled port in the pending list.
NothingRemoved(ports, lp) == ports

\* leaf_port.remove(lport), line 282.
Remaining(ports, lp) == ports \ {lp}

\* Lines 243-292: one turn of the port loop.  lport = leaf_port[0] is any
\* element, the order of list(set(...)) not being fixed by the program; the
\* answer to the remote-port query is one port or nothing, and rport[0] of
\* nothing raises; each create_interface reports whether it changed the switch.
ProcessLink ==
  /\ pc = "link"
  /\ leaf_port # {}
  /\ IF WantsV6 /\ available_ips_ipv6 >= ipv6_window
     THEN Exhausted
     ELSE \E lp \in leaf_port : \E answer \in {<< >>, <<RPortOf(current_switch, lp)>>} :
       LET slot  == IF WantsV6
                    THEN V6Slot(available_ips_ipv6, params.pn_subnet_ipv6)
                    ELSE ip_list
           query == Cmd("port_show_port", current_switch, lp, NoSwitch,
                        NoAddr, NoAddr)
       IN /\ ip_list' = slot
          /\ available_ips_ipv6' =
               IF WantsV6 THEN available_ips_ipv6 + 1 ELSE available_ips_ipv6
          /\ lport' = lp
          /\ IF Len(answer) = 0 \/ (WantsV4 /\ Len(ips) < 1)
             THEN /\ Crash("IndexError")
                  /\ cmds' = Append(cmds, query)
                  /\ UNCHANGED <<rport, leaf_port, CHANGED_FLAG, output, count>>
             ELSE /\ rport' = answer[1]
                  /\ leaf_port' = Remaining(leaf_port, lp)
                  /\ IF WantsV4 /\ Len(ips) < 2
                     THEN /\ Crash("IndexError")
                          /\ cmds' = Append(cmds, query)
                                       \o SpineSideCmds(spine_list[si], answer[1], ips, slot)
                          /\ \E chg \in BOOLEAN : CHANGED_FLAG' = CHANGED_FLAG \cup {chg}
                          /\ output' = Append(output, spine_list[si])
                          /\ UNCHANGED count
                     ELSE /\ cmds' = Append(cmds, query)
                                       \o SpineSideCmds(spine_list[si], answer[1], ips, slot)
                                       \o LeafSideCmds(spine_list[si], lp, ips, slot)
                          /\ \E c1, c2 \in BOOLEAN :
                               CHANGED_FLAG' = CHANGED_FLAG \cup {c1, c2}
                          /\ output' = output \o <<spine_list[si], current_switch>>
                          /\ count' = count + 1
                          /\ pc' = "link"
                          /\ UNCHANGED result
  /\ UNCHANGED <<params, count_output, ipv6_window, current_switch, si, ips,
                 discovered, drawn, previous>>

\* Line 232 when spine_list is used up: on to line 295.
SpinesDone ==
  /\ pc = "spine"
  /\ si > Len(spine_list)
  /\ pc' = "enable"
  /\ si' = 1
  /\ UNCHANGED <<params, count_output, ipv6_window, current_switch, count, ips,
                 leaf_port, lport, rport, available_ips_ipv6, ip_list,
                 CHANGED_FLAG, output, cmds, result, discovered, drawn, previous>>

\* Lines 295-298: modify_auto_trunk_setting(..., 'enable') on the current
\* switch, then on every spine in list order.
EnableAutoTrunk ==
  /\ pc = "enable"
  /\ cmds' = cmds \o AutoTrunkCmds("auto_trunk_enable")
  /\ pc' = "return"
  /\ UNCHANGED <<params, count_output, ipv6_window, current_switch, si, count,
                 ips, leaf_port, lport, rport, available_ips_ipv6, ip_list,
                 CHANGED_FLAG, output, result, discovered, drawn, previous>>

\* changed of line 372.
Changed == TRUE \in CHANGED_FLAG

\* Line 300 and main(), lines 340-374, with pn_update_fabric_to_inband and
\* pn_stp off: the invocation exits with its JSON result.
Return ==
  /\ pc = "return"
  /\ pc' = "done"
  /\ result' = [kind |-> "exit_json", failed |-> FALSE, changed |-> Changed,
                exception |-> ""]
  /\ UNCHANGED <<params, count_output, ipv6_window, current_switch, si, count,
                 ips, leaf_port, lport, rport, available_ips_ipv6, ip_list,
                 CHANGED_FLAG, output, cmds, discovered, drawn, previous>>

\* The sequencer on its own: finding_initial_ip (lines 174-192) called with
\* every start address, prefix length and index.
SeqInit ==
  /\ params \in {Param("ipv4", a, p, "none") : a \in 0..MaxAddr, p \in 0..AddrBits}
  /\ count_output = Unbound
  /\ ipv6_window = 0
  /\ pc = "sequencer"
  /\ Idle

SeqCall ==
  /\ pc = "sequencer"
  /\ \E n \in 0..MaxIndex :
       /\ count' = n
       /\ LET r == finding_initial_ip(params.pn_ipv4_start_address,
                                      params.pn_subnet_ipv4, n)
          IN IF ~r.ok
             THEN Crash(r.exc) /\ UNCHANGED <<ips, drawn>>
             ELSE /\ ips' = r.val
                  /\ drawn' = drawn \cup
                       {[n |-> n,
                         net |-> nth_network(params.pn_ipv4_start_address,
                                             params.pn_subnet_ipv4, n).val]}
                  /\ result' = [kind |-> "returned", failed |-> FALSE,
                                changed |-> FALSE, exception |-> ""]
                  /\ pc' = pc
  /\ UNCHANGED <<params, count_output, ipv6_window, current_switch, si,
                 leaf_port, lport, rport, available_ips_ipv6, ip_list,
                 CHANGED_FLAG, output, cmds, discovered, previous>>

SeqSpec == SeqInit /\ [][SeqCall]_vars

Next ==
  \/ \E sw \in Switches : Invoke(sw)
  \/ Gate
  \/ DisableAutoTrunk
  \/ Ipv6Setup
  \/ Offset
  \/ Spine
  \/ PortsDone
  \/ ProcessLink
  \/ SpinesDone
  \/ EnableAutoTrunk
  \/ Return
  \/ Exit

Spec == Init /\ [][Next]_vars

(* ============================ claims =================================== *)
Leaves == Range(leaf_list)

IsCreate(c) == c.op = "create_interface"

\* The create_interface commands of the invocation, in the order issued: the
\* (2j-1)-th is the spine side and the (2j)-th the leaf side of the j-th link.
Creates == SelectSeq(cmds, IsCreate)

\* Links whose two sides were both applied.
LinksDone == Len(Creates) \div 2

\* The subnet, of the configured prefix length, an IPv4 address lies in.
NetOf(addr) == addr - (addr % NetSize(params.pn_subnet_ipv4))
Nets(addrs) == {NetOf(a) : a \in addrs}

\* Position of an address's subnet in the stream that starts at the base.
SubnetIndex(addr) ==
  (NetOf(addr) - params.pn_ipv4_start_address) \div NetSize(params.pn_subnet_ipv4)

HostsOfNet(addr) ==
  hosts([network_address |-> NetOf(addr), prefixlen |-> params.pn_subnet_ipv4])

Targets == {current_switch} \cup Range(spine_list)

(* C1: the IPv4 subnets applied by one leaf are disjoint from those applied
   by every other leaf, whatever the number of ports per leaf-spine pair. *)
C1_LeavesDisjoint ==
  (current_switch \in Leaves /\ previous.switch \in Leaves
     /\ previous.switch # current_switch)
    => Nets(previous.applied) \cap Nets(AppliedIpv4(cmds)) = {}

(* C2: within one run every link gets its own IPv4 subnet: no two links of
   the run are configured with addresses of the same subnet. *)
C2_LinksDistinctSubnets ==
  \A i, j \in 1..LinksDone :
    (i # j /\ Creates[2 * i].ip4 # NoAddr)
      => NetOf(Creates[2 * i].ip4) # NetOf(Creates[2 * j].ip4)

(* C3: with exactly one port per leaf-spine pair, the leaf at index i starts
   at offset i * count(spine_list), its j-th link (to the j-th spine of the
   list) uses the subnet at index i * count(spine_list) + j - 1, a completed
   run has used exactly count(spine_list) of them, and the subnets of two
   different leaves do not intersect. *)
C3_OnePortEachIndices ==
  LET cs == Creates IN
  (current_switch \in Leaves /\ \A s \in 1..Len(discovered) : Cardinality(discovered[s]) = 1)
    => LET i == IndexOf(leaf_list, current_switch)
           S == Len(spine_list)
       IN /\ (pc = "spine" /\ si = 1) => count = i * S
          /\ \A j \in 1..Len(cs) \div 2 :
               /\ cs[2 * j - 1].sw = spine_list[j]
               /\ cs[2 * j].sw = current_switch
               /\ cs[2 * j].ip4 # NoAddr =>
                    /\ SubnetIndex(cs[2 * j - 1].ip4) = i * S + j - 1
                    /\ SubnetIndex(cs[2 * j].ip4) = i * S + j - 1
          /\ (pc = "done" /\ result.kind = "exit_json" /\ ~result.failed)
               => Len(cs) \div 2 = S
          /\ (previous.switch \in Leaves \ {current_switch} /\ previous.one_port_each)
               => Nets(previous.applied) \cap Nets(AppliedIpv4(cmds)) = {}

C3_Witness ==
  /\ pc = "done" /\ result.kind = "exit_json" /\ ~result.failed
  /\ current_switch = leaf_list[2]
  /\ OnePortEach(discovered)
  /\ LinksDone = Len(spine_list)
  /\ Creates[1].ip4 # NoAddr
  /\ previous.switch = leaf_list[1] /\ previous.one_port_each
  /\ previous.applied # {}

(* C4 as stated: for every link processed in IPv4 mode the first usable host
   of the link's subnet goes to the leaf side and the second to the spine
   side. *)
C4_LeafFirstSpineSecond ==
  \A j \in 1..LinksDone :
    Creates[2 * j].ip4 # NoAddr =>
      /\ Creates[2 * j].ip4 = HostsOfNet(Creates[2 * j].ip4)[1]
      /\ Creates[2 * j - 1].ip4 = HostsOfNet(Creates[2 * j].ip4)[2]

(* C4 amended: for every link processed in IPv4 mode the first usable host of
   the link's subnet goes to the spine side (spine, remote port) and the
   second usable host of the same subnet to the leaf side (current switch,
   leaf port). *)
C4_SpineFirstLeafSecond ==
  LET cs == Creates IN
  \A j \in 1..Len(cs) \div 2 :
    cs[2 * j].ip4 # NoAddr =>
      /\ cs[2 * j - 1].sw \in Range(spine_list)
      /\ cs[2 * j].sw = current_switch
      /\ cs[2 * j - 1].ip4 = HostsOfNet(cs[2 * j].ip4)[1]
      /\ cs[2 * j].ip4 = HostsOfNet(cs[2 * j].ip4)[2]

C4_Witness ==
  /\ LinksDone >= 1
  /\ params.pn_addr_type = "ipv4"
  /\ params.pn_subnet_ipv4 = AddrBits - 2
  /\ Creates[2].ip4 # NoAddr

(* C5: finding_initial_ip(start_ip, prefix, n) returns the hosts of the
   network at base.network_address + n * size(base), same prefix length, for
   every base network and n >= 0 for which that network lies in the address
   space; for n = 0 it is the base network itself; it raises only when
   start_ip has host bits set or the network lies beyond the last address. *)
C5_NthNetwork ==
  LET base == params.pn_ipv4_start_address
      p    == params.pn_subnet_ipv4
      sz   == (base + 2^(AddrBits - p) - 1) - base + 1
  IN /\ \A d \in drawn :
          /\ d.net.network_address = base + d.n * sz
          /\ d.net.prefixlen = p
          /\ d.n = 0 => d.net.network_address = base
     /\ result.kind = "returned" =>
          /\ [n |-> count, net |-> [network_address |-> base + count * sz,
                                    prefixlen |-> p]] \in drawn
          /\ ips = hosts([network_address |-> base + count * sz, prefixlen |-> p])
     /\ result.kind = "exception" =>
          (base % sz # 0 \/ base + count * sz > MaxAddr)
     /\ (base % sz = 0 /\ base + (count + 1) * sz - 1 <= MaxAddr /\ pc = "done")
          => result.kind # "exception"

C5_Witness ==
  /\ result.kind = "returned"
  /\ count >= 2
  /\ params.pn_ipv4_start_address > 0
  /\ Len(ips) >= 2

(* C6: for every valid base network and two indices n1 # n2 the address
   ranges of the subnets produced at n1 and at n2 are disjoint. *)
C6_SubnetsDisjoint ==
  \A d1, d2 \in drawn :
    d1.n # d2.n =>
      (d1.net.network_address .. broadcast_address(d1.net))
        \cap (d2.net.network_address .. broadcast_address(d2.net)) = {}

C6_Witness ==
  \E d1, d2 \in drawn : d1.n = 0 /\ d2.n = 1 /\ d1.net.network_address > 0

(* C7: when the current switch is not in the leaf list the run issues no
   remote command, allocates no subnet or slot, leaves the changed flag
   alone and returns the empty output. *)
C7_NonLeafNoOp ==
  (current_switch # NoSwitch /\ current_switch \notin Range(leaf_list))
    => /\ cmds = << >>
       /\ drawn = {}
       /\ discovered = << >>
       /\ available_ips_ipv6 = 0
       /\ CHANGED_FLAG = {}
       /\ output = << >>
       /\ pc \in {"gate", "return", "done"}
       /\ pc = "done" =>
            (result.kind = "exit_json" /\ ~result.failed /\ ~result.changed)

C7_Witness ==
  pc = "done" /\ current_switch = spine_list[1] /\ result.kind = "exit_json"

(* C8: every run that disabled auto-trunk ends with auto-trunk re-enabled on
   the current leaf and on every spine, however the run ends. *)
C8_TeardownAlways ==
  (pc = "done" /\ \E k \in 1..Len(cmds) : cmds[k].op = "auto_trunk_disable")
    => \A t \in Targets :
         \E k \in 1..Len(cmds) :
           cmds[k].op = "auto_trunk_enable" /\ cmds[k].sw = t

(* C9: the auto-trunk disable commands for the current leaf and for every
   spine have all been issued before the first trunk deletion or interface
   application of the run, and addresses go only to those switches. *)
C9_DisableBeforeApply ==
  \A k \in 1..Len(cmds) :
    cmds[k].op \in {"delete_trunk", "create_interface"} =>
      /\ cmds[k].sw \in Targets
      /\ \A t \in Targets :
           \E j \in 1..(k - 1) :
             cmds[j].op = "auto_trunk_disable" /\ cmds[j].sw = t

C9_Witness ==
  /\ LinksDone >= 2
  /\ \E k \in 1..Len(cmds) : cmds[k].op = "create_interface" /\ cmds[k].sw = spine_list[2]

(* C10: with an address family that includes IPv6 and a window of k slots, a
   run that does not end for want of an answer to a port query ends either
   having configured at most k links, the j-th from the j-th slot, or, with
   more links to process, with the fatal 'ipv6 range exhausted' result after
   exactly k links and with nothing issued for the (k+1)-th. *)
C10_ExhaustionOnLinkKPlus1 ==
  (WantsV6 /\ current_switch \in Leaves /\ pc = "done"
     /\ result.exception # "IndexError")
    => /\ result.kind = "exit_json"
       /\ result.failed =>
            /\ result.exception = "Error: ipv6 range exhausted"
            /\ ~result.changed
            /\ LinksDone = ipv6_window
            /\ Len(Creates) = 2 * ipv6_window
            /\ cmds[Len(cmds)].op \in {"create_interface", "port_show_hostname"}
       /\ ~result.failed => LinksDone <= ipv6_window
       /\ \A j \in 1..LinksDone :
            /\ Creates[2 * j - 1].ip6 = SpineIpv6(V6Slot(j - 1, params.pn_subnet_ipv6))
            /\ Creates[2 * j].ip6 = LeafIpv6(V6Slot(j - 1, params.pn_subnet_ipv6))

\* The run ended on a configuration error of the IPv4 inputs: a start address
\* with host bits set, a subnet beyond the address space, or a prefix whose
\* subnet has no two usable hosts.
ConfigError ==
  /\ pc = "done"
  /\ result.kind = "exception"
  /\ \/ result.exception \in {"ValueError", "AddressValueError"}
     \/ result.exception = "IndexError" /\ WantsV4 /\ Len(ips) < 2

(* C11: a run that ends on a configuration error of the IPv4 prefix length or
   of the offset has issued no remote command at all: no auto-trunk toggle,
   no port query, no trunk deletion, no interface creation. *)
C11_FailBeforeAnyCommand ==
  ConfigError => cmds = << >>

\* The IPv6 iterator had nothing left for a port still pending (lines 247-249).
ExhaustionOccurred ==
  /\ WantsV6
  /\ leaf_port # {} /\ SuccessTok \notin leaf_port
  /\ available_ips_ipv6 >= ipv6_window
  /\ result.exception \notin {"IndexError", "StopIteration", "NameError"}

\* Some create_interface call of the run reported a state change.
SomeInterfaceChanged == TRUE \in CHANGED_FLAG

(* C12: a run ends with a structured result: failed=true and changed=false
   when the IPv6 window ran out, and otherwise failed=false with changed true
   exactly when some interface application of the run reported a change. *)
C12_FinalResult ==
  pc = "done" =>
    /\ result.kind = "exit_json"
    /\ IF ExhaustionOccurred
       THEN result.failed /\ ~result.changed
       ELSE ~result.failed /\ (result.changed <=> SomeInterfaceChanged)

\* The same for the runs that reach module.exit_json.
ResultWhenReturned ==
  (pc = "done" /\ result.kind = "exit_json") =>
    IF ExhaustionOccurred
    THEN result.failed /\ ~result.changed
    ELSE ~result.failed /\ (result.changed <=> SomeInterfaceChanged)

(* ------------------- two invocations on the same inputs ---------------- *)
\* What the create_interface calls of a command log put on each (switch, port).
Assigned(log) ==
  {<<log[k].sw, log[k].port, log[k].ip4, log[k].ip6>> :
     k \in {i \in 1..Len(log) : log[i].op = "create_interface"}}

\* Exit, the summary of the ended invocation holding also the topology its
\* queries discovered, what it put on every port, and how it ended.
ExitRecorded ==
  /\ pc = "done"
  /\ previous' = [switch |-> current_switch, applied |-> AppliedIpv4(cmds),
                  one_port_each |-> OnePortEach(discovered),
                  discovered |-> discovered, assigned |-> Assigned(cmds),
                  result |-> result]
  /\ pc' = "idle"
  /\ current_switch' = NoSwitch
  /\ si' = 1
  /\ count' = 0
  /\ ips' = << >>
  /\ leaf_port' = {}
  /\ lport' = 0
  /\ rport' = 0
  /\ available_ips_ipv6' = 0
  /\ ip_list' = << >>
  /\ CHANGED_FLAG' = {}
  /\ output' = << >>
  /\ cmds' = << >>
  /\ result' = NoResult
  /\ discovered' = << >>
  /\ drawn' = {}
  /\ UNCHANGED <<params, count_output, ipv6_window>>

\* Runs on a canonical base, IPv4-only or dual-stack with a window that has a
\* slot for every link.
RerunInit ==
  /\ \/ /\ params \in {Param("ipv4", 0, p, "none") : p \in {AddrBits - 2, AddrBits - 1}}
        /\ count_output = Unbound
        /\ ipv6_window = 0
     \/ /\ params \in {Param("ipv4_ipv6", 0, AddrBits - 1, s6) : s6 \in {"127", "126"}}
        /\ count_output \in CountOutputs
        /\ ipv6_window = MaxSlots
  /\ pc = "idle"
  /\ Idle

RerunNext ==
  \/ \E sw \in Switches : Invoke(sw)
  \/ Gate
  \/ DisableAutoTrunk
  \/ Ipv6Setup
  \/ Offset
  \/ Spine
  \/ PortsDone
  \/ ProcessLink
  \/ SpinesDone
  \/ EnableAutoTrunk
  \/ Return
  \/ ExitRecorded

RerunSpec == RerunInit /\ [][RerunNext]_vars

\* The invocation before this one ran on the same switch, discovered the same
\* topology and ended the same way, the parameters being those of every run.
SameInputsAsPrevious ==
  /\ pc = "done"
  /\ result.kind = "exit_json" /\ ~result.failed
  /\ previous.switch = current_switch
  /\ previous.discovered = discovered
  /\ previous.result.kind = "exit_json" /\ ~previous.result.failed

(* C13: two runs with identical parameters and an identical discovered
   topology put the same addresses on every (switch, port), whatever the
   order in which the ports of a spine are taken. *)
C13_SameInputsSameAddresses ==
  SameInputsAsPrevious => previous.assigned = Assigned(cmds)

\* The IPv4 part of the same.
SameIpv4AsPrevious ==
  SameInputsAsPrevious =>
    {<<a[1], a[2], a[3]>> : a \in previous.assigned}
      = {<<a[1], a[2], a[3]>> : a \in Assigned(cmds)}

(* C14: the offset goes up by exactly one per configured link, and the j-th
   link of a run (j = 0, 1, ...) is configured from the IPv4 subnet at index
   index_of(leaf) * count(spine_list) + j and, with IPv6 in the family, from
   the j-th slot the run draws: one subnet and one slot per link. *)
C14_LockstepPerLink ==
  current_switch \in Leaves =>
    LET first == IndexOf(leaf_list, current_switch) * Len(spine_list)
    IN /\ pc \in {"spine", "link", "enable", "return"} => count = first + LinksDone
       /\ \A j \in 1..LinksDone :
            /\ WantsV4 =>
                 /\ SubnetIndex(Creates[2 * j - 1].ip4) = first + (j - 1)
                 /\ SubnetIndex(Creates[2 * j].ip4) = first + (j - 1)
            /\ WantsV6 =>
                 /\ Creates[2 * j - 1].ip6
                      = SpineIpv6(V6Slot(count_output + (j - 1), params.pn_subnet_ipv6))
                 /\ Creates[2 * j].ip6
                      = LeafIpv6(V6Slot(count_output + (j - 1), params.pn_subnet_ipv6))

\* The offset and the IPv6 stream alone.
CountAndSlotsPerLink ==
  current_switch \in Leaves =>
    /\ pc \in {"spine", "link", "enable", "return"} =>
         count = IndexOf(leaf_list, current_switch) * Len(spine_list) + LinksDone
    /\ WantsV6 => \A j \in 1..LinksDone :
         Creates[2 * j].ip6
           = LeafIpv6(V6Slot(count_output + (j - 1), params.pn_subnet_ipv6))

\* The positions of the port queries (line 237) in the command log, in order.
HostnameQueries ==
  SelectSeq([k \in 1..Len(cmds) |-> k],
            LAMBDA k : cmds[k].op = "port_show_hostname")

\* The spine whose ports were being handled when the k-th command was issued.
SpineAt(k) ==
  LET qs == {q \in 1..k : cmds[q].op = "port_show_hostname"}
  IN cmds[CHOOSE q \in qs : \A r \in qs : r <= q].peer

(* C15: on every port the trunk is removed before the interface is applied;
   within a link the spine side comes before the leaf side, and both sides
   of a link are issued before anything is issued for the next port; the
   spines are visited in the order of the spine list. *)
C15_OrderWithinLink ==
  /\ \A k \in 1..Len(cmds) :
       cmds[k].op = "create_interface" =>
         /\ k > 1
         /\ cmds[k - 1].op = "delete_trunk"
         /\ cmds[k - 1].sw = cmds[k].sw
         /\ cmds[k - 1].port = cmds[k].port
  /\ \A k \in 1..Len(cmds) :
       (cmds[k].op = "port_show_port" /\ Len(cmds) > k) =>
         /\ Len(cmds) >= k + 4
         /\ cmds[k + 1].op = "delete_trunk" /\ cmds[k + 1].sw = SpineAt(k)
         /\ cmds[k + 1].peer = current_switch
         /\ cmds[k + 2].op = "create_interface" /\ cmds[k + 2].sw = SpineAt(k)
         /\ cmds[k + 3].op = "delete_trunk" /\ cmds[k + 3].sw = current_switch
         /\ cmds[k + 3].port = cmds[k].port /\ cmds[k + 3].peer = SpineAt(k)
         /\ cmds[k + 4].op = "create_interface" /\ cmds[k + 4].sw = current_switch
         /\ cmds[k + 4].port = cmds[k].port
         /\ Len(cmds) > k + 4 =>
              cmds[k + 5].op \in {"port_show_port", "port_show_hostname",
                                  "auto_trunk_enable"}
  /\ \A i \in 1..Len(HostnameQueries) :
       /\ i <= Len(spine_list)
       /\ cmds[HostnameQueries[i]].peer = spine_list[i]

C15_Witness ==
  /\ LinksDone >= 3
  /\ Creates[1].sw = spine_list[1]
  /\ Creates[2 * LinksDone - 1].sw = spine_list[2]
  /\ pc = "done"

\* The position in spine_list of the spine being handled at the k-th command.
SpineIndexAt(k) ==
  Cardinality({q \in 1..k : cmds[q].op = "port_show_hostname"})

\* The teardown of lines 295-298 closes the command log.
TeardownIssued ==
  /\ Len(cmds) >= Len(spine_list) + 1
  /\ \A i \in 1..(Len(spine_list) + 1) :
       LET c == cmds[Len(cmds) - (Len(spine_list) + 1) + i]
       IN /\ c.op = "auto_trunk_enable"
          /\ c.sw = (<<current_switch>> \o spine_list)[i]

(* C16: a spine whose port query reports no port is skipped: nothing is
   issued for it beyond the query, the offset moves only with configured
   links, the run does not fail on it, the spines after it are still queried
   and the teardown is still issued. *)
C16_EmptySpineSkipped ==
  current_switch \in Leaves =>
    /\ \A k \in 1..Len(cmds) :
         cmds[k].op \in {"port_show_port", "delete_trunk", "create_interface"}
           => discovered[SpineIndexAt(k)] # {}
    /\ pc \in {"spine", "link", "enable", "return"} =>
         count = IndexOf(leaf_list, current_switch) * Len(spine_list)
                   + Cardinality({k \in 1..Len(cmds) : cmds[k].op = "create_interface"
                                                        /\ cmds[k].sw = current_switch})
    /\ (pc = "link" /\ discovered[si] = {}) => (leaf_port = {} /\ result = NoResult)
    /\ (pc = "done" /\ discovered # << >> /\ discovered[Len(discovered)] = {}) =>
         /\ result.kind = "exit_json" /\ ~result.failed
         /\ Len(discovered) = Len(spine_list)
         /\ TeardownIssued
    /\ (pc = "done" /\ ~result.failed) =>
         /\ Len(discovered) = Len(spine_list)
         /\ TeardownIssued

C16_Witness ==
  /\ pc = "done" /\ ~result.failed
  /\ current_switch \in Leaves
  /\ discovered[1] = {}
  /\ discovered[2] # {}
  /\ LinksDone >= 1
  /\ Creates[1].sw = spine_list[2]

(* ----------------------- runs in IPv4 mode ----------------------------- *)
Ipv4Init ==
  /\ params \in {Param("ipv4", a, p, "none") : a \in StartIps, p \in Prefixes}
  /\ count_output = Unbound
  /\ ipv6_window = 0
  /\ pc = "idle"
  /\ Idle

\* A step of the running invocation.  The program is sequential and every
\* remote command returns, so a run that can take a step takes it.
RunStep ==
  \/ Gate
  \/ DisableAutoTrunk
  \/ Ipv6Setup
  \/ Offset
  \/ Spine
  \/ PortsDone
  \/ ProcessLink
  \/ SpinesDone
  \/ EnableAutoTrunk
  \/ Return

\* One invocation, from the call in main to the end of the process.
OneRun ==
  \/ \E sw \in Switches : Invoke(sw)
  \/ RunStep

Ipv4FairSpec == Ipv4Init /\ [][OneRun]_vars /\ WF_vars(RunStep)

\* Positions of the leaf-side interface applications made for the s-th spine.
LeafApplications(s) ==
  {k \in 1..Len(cmds) : /\ cmds[k].op = "create_interface"
                        /\ cmds[k].sw = current_switch
                        /\ SpineIndexAt(k) = s}

SpineApplications(s) ==
  {k \in 1..Len(cmds) : /\ cmds[k].op = "create_interface"
                        /\ cmds[k].sw = spine_list[s]}

\* The ports of the s-th spine still waiting in leaf_port.
Pending(s) == IF s = Len(discovered) THEN leaf_port \ {SuccessTok} ELSE {}

\* Handled and pending ports of every queried spine make up the distinct
\* ports its query reported, and no port is handled twice.
HandledOnce ==
  \A s \in 1..Len(discovered) :
    LET handled == {cmds[k].port : k \in LeafApplications(s)}
    IN /\ handled \cup Pending(s) = discovered[s]
       /\ handled \cap Pending(s) = {}
       /\ Cardinality(LeafApplications(s)) = Cardinality(handled)
       /\ Cardinality(SpineApplications(s)) = Cardinality(handled)
       /\ (pc \in {"enable", "return"} \/ (pc = "done" /\ ~result.failed))
            => handled = discovered[s]

\* A turn of the port loop that does not end the run takes exactly the port
\* it handled out of the pending set.
PendingShrinks ==
  (pc = "link" /\ leaf_port # {} /\ pc' = "link")
    => /\ leaf_port' \subseteq leaf_port
       /\ leaf_port' # leaf_port
       /\ leaf_port \ leaf_port' = {lport'}
       /\ Cardinality(leaf_port') = Cardinality(leaf_port) - 1

(* C17: a run in IPv4 mode terminates; for every spine each distinct port
   its query reported is handled once and no more, with one spine-side and
   one leaf-side interface application, and is taken out of the pending set
   when handled, so that the pending set gets strictly smaller on every turn
   of the port loop. *)
C17_TerminatesEachPortOnce ==
  /\ [](current_switch \in Leaves => HandledOnce)
  /\ [][PendingShrinks]_vars
  /\ [](pc = "gate" => <>(pc = "done"))

C17_Witness ==
  /\ pc = "done" /\ ~result.failed
  /\ current_switch \in Leaves
  /\ Len(discovered) = Len(spine_list)
  /\ Cardinality(discovered[1]) = 2
  /\ Cardinality(LeafApplications(1)) = 2
  /\ Cardinality(discovered[2]) = 1

\* The parts of C18 for the families that include IPv4.
FamiliesWithIpv4 ==
  current_switch \in Leaves =>
    /\ params.pn_addr_type = "ipv4" =>
         /\ \A j \in 1..Len(Creates) :
              Creates[j].ip4 # NoAddr /\ Creates[j].ip6 = NoAddr
         /\ available_ips_ipv6 = 0
         /\ ip_list = << >>
    /\ params.pn_addr_type = "ipv4_ipv6" =>
         \A j \in 1..Len(Creates) :
           Creates[j].ip4 # NoAddr /\ Creates[j].ip6 # NoAddr

(* C18: each stream is used only when the family includes it: with 'ipv4'
   every interface application has an IPv4 address and no IPv6 address and
   no slot is drawn; with 'ipv6' the run of a leaf completes, every
   application has an IPv6 address and no IPv4 address, and no IPv4 subnet is
   computed; with 'ipv4_ipv6' every application has both. *)
C18_FamiliesIndependent ==
  /\ FamiliesWithIpv4
  /\ (current_switch \in Leaves /\ params.pn_addr_type = "ipv6") =>
       /\ pc = "done" => result.kind = "exit_json"
       /\ drawn = {}
       /\ ips = << >>
       /\ \A j \in 1..Len(Creates) :
            Creates[j].ip4 = NoAddr /\ Creates[j].ip6 # NoAddr

(* C19: the two IPv4 addresses of a link, spine side and leaf side, differ
   and are the first two usable hosts of one allocated subnet: network and
   broadcast address when the prefix leaves one host bit, the two addresses
   after the network address, neither of them network or broadcast address,
   when it leaves two or more. *)
C19_TwoHostsOfOneSubnet ==
  LET cs == Creates IN
  \A j \in 1..Len(cs) \div 2 :
    WantsV4 =>
      LET a   == cs[2 * j - 1].ip4
          b   == cs[2 * j].ip4
          sz  == 2^(AddrBits - params.pn_subnet_ipv4)
          net == a - (a % sz)
          bc  == net + sz - 1
      IN /\ a # b
         /\ a \in 0..MaxAddr /\ b \in 0..MaxAddr
         /\ b - (b % sz) = net
         /\ \E d \in drawn : d.net.network_address = net
                               /\ d.net.prefixlen = params.pn_subnet_ipv4
         /\ IF params.pn_subnet_ipv4 = AddrBits - 1
            THEN {a, b} = {net, bc}
            ELSE /\ {a, b} = {net + 1, net + 2}
                 /\ {a, b} \cap {net, bc} = {}

C19_Witness ==
  /\ LinksDone >= 1
  /\ params.pn_subnet_ipv4 = AddrBits - 1
  /\ params.pn_ipv4_start_address > 0
  /\ Creates[1].ip4 = params.pn_ipv4_start_address
       + IndexOf(leaf_list, current_switch) * Len(spine_list) * 2

====
